---- MODULE Spec2Model ----
(***************************************************************************)
(* Model of num_parser2's evaluation context (src/context/mod.rs) and of   *)
(* its settings (src/context/settings.rs): the registry of user-defined    *)
(* functions and variables, its constructors, its merge operation, and the *)
(* angle-unit conversion AngleUnit::convert_value.                         *)
(***************************************************************************)
EXTENDS Integers, Sequences, FiniteSets

VARIABLES ctx, last, conv

vars == <<ctx, last, conv>>

(***************************************************************************)
(* Option<T> and Result<T, E>                                              *)
(***************************************************************************)
None == <<>>
Some(x) == <<x>>
is_some(o) == o # None

Ok(v) == [ok |-> TRUE, val |-> v]
Err(e) == [ok |-> FALSE, err |-> e]

(***************************************************************************)
(* Settings (settings.rs)                                                  *)
(***************************************************************************)
Round(n) == [tag |-> "Round", n |-> n]
NoRounding == [tag |-> "NoRounding"]
Limit(n) == [tag |-> "Limit", n |-> n]
NoLimit == [tag |-> "NoLimit"]

AngleUnit == {"Radian", "Degree", "Turn"}

Rounding_default == Round(8)
AngleUnit_default == "Radian"
\* Mutant: an off-by-one default limit.
DepthLimit_default_50 == Limit(50)

DepthLimit_default == Limit(49)

\* The settings the constructors are exercised with.
Roundings == {Round(8), Round(4), NoRounding}
DepthLimits == {Limit(49), Limit(10), NoLimit}

(***************************************************************************)
(* Context (mod.rs).  A HashMap is a function whose domain is the set of   *)
(* bound keys.                                                             *)
(***************************************************************************)
Names == {"A", "B"}
Ids == {"g", "h"}
Bodies == {"body1", "body2"}
\* The (params, body) pairs functions are defined with.
FnDefs == {<<<<"x">>, "body1">>, <<<<"y">>, "body2">>}

EmptyMap == <<>>

\* HashMap::insert: binds k to v, replacing any previous value.
insert(m, k, v) == [x \in (DOMAIN m) \cup {k} |-> IF x = k THEN v ELSE m[x]]

\* HashMap::get(..).cloned()
get(m, k) == IF k \in DOMAIN m THEN Some(m[k]) ELSE None

Context_new(rounding, angle_unit, depth_limit) ==
    [functions |-> EmptyMap,
     variables |-> EmptyMap,
     rounding |-> rounding,
     angle_unit |-> angle_unit,
     depth_limit |-> depth_limit]

Context_default ==
    [functions |-> EmptyMap,
     variables |-> EmptyMap,
     rounding |-> Rounding_default,
     angle_unit |-> AngleUnit_default,
     depth_limit |-> DepthLimit_default]

\* Mutant: entry(identifier).or_insert(..), the first definition is kept.
add_function_keep(self, identifier, params, body) ==
    IF identifier \in DOMAIN self.functions THEN self
    ELSE [self EXCEPT !.functions = insert(self.functions, identifier, <<params, body>>)]

add_function(self, identifier, params, body) ==
    [self EXCEPT !.functions = insert(self.functions, identifier, <<params, body>>)]

add_variable(self, identifier, expression) ==
    [self EXCEPT !.variables = insert(self.variables, identifier, expression)]

get_function(self, identifier) == get(self.functions, identifier)

get_var(self, identifier) == get(self.variables, identifier)

\* Mutant: looks the identifier up among the variables.
is_function_var(self, identifier) == is_some(get_var(self, identifier))

is_function(self, identifier) == is_some(get_function(self, identifier))

is_var(self, identifier) == is_some(get_var(self, identifier))

\* for (identifier, (params, body)) in fs { self.add_function(..) }
\* (a HashMap iterates in an arbitrary order)
RECURSIVE join_functions(_, _)
join_functions(self, fs) ==
    IF DOMAIN fs = {} THEN self
    ELSE LET identifier == CHOOSE k \in DOMAIN fs : TRUE
             rest == [k \in (DOMAIN fs) \ {identifier} |-> fs[k]]
         IN join_functions(
                add_function(self, identifier, fs[identifier][1], fs[identifier][2]),
                rest)

\* for (identifier, expression) in vs { self.add_variable(..) }
RECURSIVE join_variables(_, _)
join_variables(self, vs) ==
    IF DOMAIN vs = {} THEN self
    ELSE LET identifier == CHOOSE k \in DOMAIN vs : TRUE
             rest == [k \in (DOMAIN vs) \ {identifier} |-> vs[k]]
         IN join_variables(add_variable(self, identifier, vs[identifier]), rest)

\* Mutant: on a collision the receiver's own binding is kept.
join_with_keep(self, context) ==
    [self EXCEPT !.functions = join_functions(context, self.functions).functions,
                 !.variables = join_variables(context, self.variables).variables]

\* Mutant: the merge also takes the argument's angle unit.
join_with_settings(self, context) ==
    [join_variables(join_functions(self, context.functions), context.variables)
        EXCEPT !.angle_unit = context.angle_unit]

join_with(self, context) ==
    join_variables(join_functions(self, context.functions), context.variables)

(***************************************************************************)
(* The registry as a state machine: two contexts, and the last call made.  *)
(* The record of a call keeps the contexts as they were before the call    *)
(* (before), so that the effect of the call can be read off a state.       *)
(***************************************************************************)
NoCall == [op |-> "none"]
NoConv == [op |-> "none"]

\* A is built by Context::default(), B by Context::new with other settings.
InitCtx ==
    /\ \E s \in {<<NoRounding, "Degree", NoLimit>>, <<Round(4), "Turn", Limit(10)>>} :
           ctx = [c \in Names |-> IF c = "A" THEN Context_default
                                  ELSE Context_new(s[1], s[2], s[3])]
    /\ last = NoCall
    /\ conv = NoConv

AddFunction(c, identifier, params, body) ==
    /\ ctx' = [ctx EXCEPT ![c] = add_function(ctx[c], identifier, params, body)]
    /\ last' = [op |-> "add_function", self |-> c, identifier |-> identifier,
                params |-> params, body |-> body, before |-> ctx]
    /\ UNCHANGED conv

AddVariable(c, identifier, expression) ==
    /\ ctx' = [ctx EXCEPT ![c] = add_variable(ctx[c], identifier, expression)]
    /\ last' = [op |-> "add_variable", self |-> c, identifier |-> identifier,
                body |-> expression, before |-> ctx]
    /\ UNCHANGED conv

\* self is &mut and context is &, so the two are distinct contexts.
JoinWith(c, o) ==
    /\ c # o
    /\ ctx' = [ctx EXCEPT ![c] = join_with(ctx[c], ctx[o])]
    /\ last' = [op |-> "join_with", self |-> c, other |-> o, before |-> ctx]
    /\ UNCHANGED conv

GetFunction(c, identifier) ==
    /\ last' = [op |-> "get_function", self |-> c, identifier |-> identifier,
                ret |-> get_function(ctx[c], identifier), before |-> ctx]
    /\ UNCHANGED <<ctx, conv>>

GetVar(c, identifier) ==
    /\ last' = [op |-> "get_var", self |-> c, identifier |-> identifier,
                ret |-> get_var(ctx[c], identifier), before |-> ctx]
    /\ UNCHANGED <<ctx, conv>>

IsFunction(c, identifier) ==
    /\ last' = [op |-> "is_function", self |-> c, identifier |-> identifier,
                ret |-> is_function(ctx[c], identifier), before |-> ctx]
    /\ UNCHANGED <<ctx, conv>>

IsVar(c, identifier) ==
    /\ last' = [op |-> "is_var", self |-> c, identifier |-> identifier,
                ret |-> is_var(ctx[c], identifier), before |-> ctx]
    /\ UNCHANGED <<ctx, conv>>

NextCtx ==
    \/ \E c \in Names, i \in Ids, f \in FnDefs : AddFunction(c, i, f[1], f[2])
    \/ \E c \in Names, i \in Ids, b \in Bodies : AddVariable(c, i, b)
    \/ \E c \in Names, o \in Names : JoinWith(c, o)
    \/ \E c \in Names, i \in Ids : GetFunction(c, i)
    \/ \E c \in Names, i \in Ids : GetVar(c, i)
    \/ \E c \in Names, i \in Ids : IsFunction(c, i)
    \/ \E c \in Names, i \in Ids : IsVar(c, i)

SpecCtx == InitCtx /\ [][NextCtx]_vars

(***************************************************************************)
(* Properties of the registry (under SpecCtx)                              *)
(***************************************************************************)
Lookups == {"get_function", "get_var", "is_function", "is_var"}
Settings(c) == <<c.rounding, c.angle_unit, c.depth_limit>>

\* C1: after B.join_with(A), every identifier A binds as a function (as a
\* variable) has A's binding in B, every identifier only B binds keeps the
\* binding it had, and A is what it was before the call.
C1_JoinWith ==
    last.op = "join_with" =>
        LET b == last.self
            a == last.other
            pre == last.before
        IN /\ \A i \in Ids :
                  /\ is_function(pre[a], i) =>
                         get_function(ctx[b], i) = get_function(pre[a], i)
                  /\ is_var(pre[a], i) =>
                         get_var(ctx[b], i) = get_var(pre[a], i)
                  /\ ~is_function(pre[a], i) =>
                         get_function(ctx[b], i) = get_function(pre[b], i)
                  /\ ~is_var(pre[a], i) =>
                         get_var(ctx[b], i) = get_var(pre[b], i)
           /\ ctx[a] = pre[a]

\* A merge has happened in which g collided (bound differently as a function
\* and as a variable in both contexts) and h was bound only in the receiver.
C1_Witness ==
    /\ last.op = "join_with"
    /\ LET b == last.before[last.self]
           a == last.before[last.other]
       IN /\ is_function(a, "g") /\ is_function(b, "g")
          /\ get_function(a, "g") # get_function(b, "g")
          /\ is_var(a, "g") /\ is_var(b, "g")
          /\ get_var(a, "g") # get_var(b, "g")
          /\ is_function(b, "h") /\ ~is_function(a, "h")
          /\ is_var(b, "h") /\ ~is_var(a, "h")

\* C2: last write wins: right after add_function (add_variable) the lookup
\* of that identifier returns exactly the definition just given, whatever was
\* bound before; and an add can be made in every state (it never fails).
C2_LastWriteWins ==
    /\ last.op = "add_function" =>
           get_function(ctx[last.self], last.identifier)
               = Some(<<last.params, last.body>>)
    /\ last.op = "add_variable" =>
           get_var(ctx[last.self], last.identifier) = Some(last.body)
    /\ \A c \in Names, i \in Ids :
           /\ \A f \in FnDefs : ENABLED AddFunction(c, i, f[1], f[2])
           /\ \A b \in Bodies : ENABLED AddVariable(c, i, b)

\* A function has been redefined with other parameters and another body.
C2_Witness ==
    /\ last.op = "add_function"
    /\ get_function(last.before[last.self], last.identifier)
           = Some(<<<<"x">>, "body1">>)
    /\ last.params = <<"y">>
    /\ last.body = "body2"

\* C8: a lookup of an unbound identifier returns the empty result; is_function
\* (is_var) is true exactly when get_function (get_var) is non-empty, which is
\* exactly when the identifier is bound; and a lookup leaves every context as
\* it was.
C8_Lookups ==
    /\ last.op \in Lookups => ctx = last.before
    /\ last.op = "get_function" =>
           /\ last.identifier \notin DOMAIN last.before[last.self].functions
                  => last.ret = None
           /\ last.identifier \in DOMAIN last.before[last.self].functions
                  => last.ret = Some(last.before[last.self].functions[last.identifier])
    /\ last.op = "get_var" =>
           /\ last.identifier \notin DOMAIN last.before[last.self].variables
                  => last.ret = None
           /\ last.identifier \in DOMAIN last.before[last.self].variables
                  => last.ret = Some(last.before[last.self].variables[last.identifier])
    /\ last.op = "is_function" =>
           last.ret = (last.identifier \in DOMAIN last.before[last.self].functions)
    /\ last.op = "is_var" =>
           last.ret = (last.identifier \in DOMAIN last.before[last.self].variables)
    /\ \A c \in Names, i \in Ids :
           /\ is_function(ctx[c], i) <=> (get_function(ctx[c], i) # None)
           /\ is_var(ctx[c], i) <=> (get_var(ctx[c], i) # None)

\* is_function has answered FALSE for an identifier that is bound as a
\* variable but not as a function.
C8_Witness ==
    /\ last.op = "is_function"
    /\ last.ret = FALSE
    /\ get_function(ctx[last.self], last.identifier) = None
    /\ get_var(ctx[last.self], last.identifier) # None

\* C9: add_function changes only the given identifier's entry of the
\* receiver's functions, add_variable only the given identifier's entry of the
\* receiver's variables, and none of add_function, add_variable and join_with
\* changes the receiver's settings or any other context.
C9_Frame ==
    /\ last.op = "add_function" =>
           /\ \A c \in Names \ {last.self} : ctx[c] = last.before[c]
           /\ ctx[last.self].variables = last.before[last.self].variables
           /\ Settings(ctx[last.self]) = Settings(last.before[last.self])
           /\ \A i \in Ids \ {last.identifier} :
                  get_function(ctx[last.self], i)
                      = get_function(last.before[last.self], i)
    /\ last.op = "add_variable" =>
           /\ \A c \in Names \ {last.self} : ctx[c] = last.before[c]
           /\ ctx[last.self].functions = last.before[last.self].functions
           /\ Settings(ctx[last.self]) = Settings(last.before[last.self])
           /\ \A i \in Ids \ {last.identifier} :
                  get_var(ctx[last.self], i) = get_var(last.before[last.self], i)
    /\ last.op = "join_with" =>
           /\ \A c \in Names \ {last.self} : ctx[c] = last.before[c]
           /\ Settings(ctx[last.self]) = Settings(last.before[last.self])

\* A merge has brought bindings from a context with other settings into a
\* receiver where g is both a function and a variable.
C9_Witness ==
    /\ last.op = "join_with"
    /\ Settings(ctx[last.other]) # Settings(ctx[last.self])
    /\ ctx[last.other].functions # EmptyMap
    /\ ctx[last.self].functions # last.before[last.self].functions
    /\ is_function(ctx[last.self], "g") /\ is_var(ctx[last.self], "g")

(***************************************************************************)
(* Construction: each context is rebuilt by Context::new or                *)
(* Context::default.                                                       *)
(***************************************************************************)
InitNew ==
    /\ ctx = [c \in Names |-> Context_default]
    /\ last = NoCall
    /\ conv = NoConv

New(c, rounding, angle_unit, depth_limit) ==
    /\ ctx' = [ctx EXCEPT ![c] = Context_new(rounding, angle_unit, depth_limit)]
    /\ last' = [op |-> "new", self |-> c, rounding |-> rounding,
                angle_unit |-> angle_unit, depth_limit |-> depth_limit]
    /\ UNCHANGED conv

Default(c) ==
    /\ ctx' = [ctx EXCEPT ![c] = Context_default]
    /\ last' = [op |-> "default", self |-> c]
    /\ UNCHANGED conv

NextNew ==
    \/ \E c \in Names, r \in Roundings, a \in AngleUnit, d \in DepthLimits :
           New(c, r, a, d)
    \/ \E c \in Names : Default(c)

SpecNew == InitNew /\ [][NextNew]_vars

\* C7: Context::default() yields empty mappings with rounding Round(8), angle
\* unit Radian and depth limit Limit(49), which is what
\* Context::new(Round(8), Radian, Limit(49)) yields; and Context::new(r, a, d)
\* yields empty mappings with exactly the settings r, a, d.
C7_Construction ==
    /\ last.op = "default" =>
           /\ ctx[last.self] = [functions |-> <<>>, variables |-> <<>>,
                                rounding |-> [tag |-> "Round", n |-> 8],
                                angle_unit |-> "Radian",
                                depth_limit |-> [tag |-> "Limit", n |-> 49]]
           /\ ctx[last.self] = Context_new(Round(8), "Radian", Limit(49))
    /\ last.op = "new" =>
           /\ DOMAIN ctx[last.self].functions = {}
           /\ DOMAIN ctx[last.self].variables = {}
           /\ ctx[last.self].rounding = last.rounding
           /\ ctx[last.self].angle_unit = last.angle_unit
           /\ ctx[last.self].depth_limit = last.depth_limit

\* A context built with other settings has been rebuilt by default().
C7_Witness ==
    /\ last.op = "default"
    /\ ctx[last.self] = Context_default
    /\ \E c \in Names \ {last.self} :
           /\ ctx[c].rounding = NoRounding
           /\ ctx[c].angle_unit = "Turn"
           /\ ctx[c].depth_limit = NoLimit

(***************************************************************************)
(* Value: the numeric type of the arithmetic engine.  A value is the exact *)
(* number (n / d) * pi^p, kept in lowest terms; consts::PI is the symbol   *)
(* pi, so no rounding error enters and "approximately equal" is equality.  *)
(***************************************************************************)
MaxNum == 2
MaxDen == 2
MaxPiExp == 1
MaxCalls == 4

Abs(x) == IF x < 0 THEN -x ELSE x

RECURSIVE Gcd(_, _)
Gcd(a, b) == IF b = 0 THEN a ELSE Gcd(b, a % b)

Norm(n, d, p) ==
    IF n = 0 THEN [n |-> 0, d |-> 1, p |-> 0]
    ELSE LET g == Gcd(Abs(n), d) IN [n |-> n \div g, d |-> d \div g, p |-> p]

Value_from(k) == Norm(k, 1, 0)
Value_half == Norm(1, 2, 0)
PI == Norm(1, 1, 1)

\* What one call of the engine does: succeed ("ok") or fail with an error.
Errors == {"E1", "E2"}
Outcomes == {"ok"} \cup Errors
Engines == [1..MaxCalls -> Outcomes]
AllOk == [i \in 1..MaxCalls |-> "ok"]

\* Value / Value
Div(a, b, outcome) ==
    IF outcome # "ok" THEN Err(outcome)
    ELSE IF b.n = 0 THEN Err("DivisionByZero")
    ELSE Ok(Norm((IF b.n < 0 THEN -1 ELSE 1) * a.n * b.d, a.d * Abs(b.n), a.p - b.p))

\* Value * Value
Mul(a, b, outcome) ==
    IF outcome # "ok" THEN Err(outcome)
    ELSE Ok(Norm(a.n * b.n, a.d * b.d, a.p + b.p))

Values ==
    {Norm(n, d, p) : n \in (-MaxNum)..MaxNum, d \in 1..MaxDen, p \in (-MaxPiExp)..MaxPiExp}
        \cup {Value_from(180)}

(***************************************************************************)
(* AngleUnit::convert_value (settings.rs).  A computation carries the      *)
(* Result so far and the engine calls made so far; the i-th call of the    *)
(* engine has outcome eng[i].                                              *)
(***************************************************************************)
Quot(lhs, rhs, eng, ops) ==
    [res |-> Div(lhs, rhs, eng[Len(ops) + 1]),
     ops |-> Append(ops, [op |-> "div", lhs |-> lhs, rhs |-> rhs])]

Prod(lhs, rhs, eng, ops) ==
    [res |-> Mul(lhs, rhs, eng[Len(ops) + 1]),
     ops |-> Append(ops, [op |-> "mul", lhs |-> lhs, rhs |-> rhs])]

\* Mutant: the Radian source is routed through the engine too.
as_radians_arith(self, value, eng) ==
    CASE self = "Radian" -> Quot(value, Value_from(1), eng, <<>>)
      [] self = "Degree" ->
            LET division_result == Quot(value, Value_from(180), eng, <<>>)
            IN IF ~division_result.res.ok THEN division_result
               ELSE Prod(division_result.res.val, PI, eng, division_result.ops)
      [] self = "Turn" ->
            LET division_result == Quot(value, Value_half, eng, <<>>)
            IN IF ~division_result.res.ok THEN division_result
               ELSE Quot(division_result.res.val, PI, eng, division_result.ops)

\* let as_radians = match self { .. }
as_radians(self, value, eng) ==
    CASE self = "Radian" -> [res |-> Ok(value), ops |-> <<>>]
      [] self = "Degree" ->
            LET division_result == Quot(value, Value_from(180), eng, <<>>)
            IN IF ~division_result.res.ok THEN division_result
               ELSE Prod(division_result.res.val, PI, eng, division_result.ops)
      [] self = "Turn" ->
            LET division_result == Quot(value, Value_half, eng, <<>>)
            IN IF ~division_result.res.ok THEN division_result
               ELSE Quot(division_result.res.val, PI, eng, division_result.ops)

\* Mutant: a full turn (360, 1) is used where the half turn (180, 0.5) belongs.
to_unit_full(to, radians, eng, ops) ==
    CASE to = "Radian" -> [res |-> Ok(radians), ops |-> ops]
      [] to = "Degree" ->
            LET division_result == Quot(radians, PI, eng, ops)
            IN IF ~division_result.res.ok THEN division_result
               ELSE Prod(division_result.res.val, Value_from(360), eng,
                         division_result.ops)
      [] to = "Turn" ->
            LET division_result == Quot(radians, PI, eng, ops)
            IN IF ~division_result.res.ok THEN division_result
               ELSE Prod(division_result.res.val, Value_from(1), eng,
                         division_result.ops)

\* Ok(match to { .. })
to_unit(to, radians, eng, ops) ==
    CASE to = "Radian" -> [res |-> Ok(radians), ops |-> ops]
      [] to = "Degree" ->
            LET division_result == Quot(radians, PI, eng, ops)
            IN IF ~division_result.res.ok THEN division_result
               ELSE Prod(division_result.res.val, Value_from(180), eng,
                         division_result.ops)
      [] to = "Turn" ->
            LET division_result == Quot(radians, PI, eng, ops)
            IN IF ~division_result.res.ok THEN division_result
               ELSE Prod(division_result.res.val, Value_half, eng,
                         division_result.ops)

\* Mutant: a failure of the first stage is dropped and the second stage goes
\* on with the input value.
convert_value_lenient(self, to, value, eng) ==
    LET r == as_radians(self, value, eng)
    IN to_unit(to, IF r.res.ok THEN r.res.val ELSE value, eng, r.ops)

convert_value(self, to, value, eng) ==
    LET r == as_radians(self, value, eng)
    IN IF ~r.res.ok THEN r ELSE to_unit(to, r.res.val, eng, r.ops)

\* A caller is about to convert value from unit self to unit to, with an
\* engine whose calls will have the outcomes eng.
InitConv ==
    /\ ctx = [c \in Names |-> Context_default]
    /\ last = NoCall
    /\ \E self \in AngleUnit, to \in AngleUnit, value \in Values, eng \in Engines :
           conv = [op |-> "call", self |-> self, to |-> to, value |-> value,
                   eng |-> eng]

ConvertValue(self, to, value, eng) ==
    /\ conv = [op |-> "call", self |-> self, to |-> to, value |-> value, eng |-> eng]
    /\ conv' = [op |-> "convert_value", self |-> self, to |-> to, value |-> value,
                eng |-> eng,
                ret |-> convert_value(self, to, value, eng).res,
                ops |-> convert_value(self, to, value, eng).ops]
    /\ UNCHANGED <<ctx, last>>

NextConv ==
    /\ conv.op = "call"
    /\ ConvertValue(conv.self, conv.to, conv.value, conv.eng)

SpecConv == InitConv /\ [][NextConv]_vars

(***************************************************************************)
(* Properties of convert_value (under SpecConv)                            *)
(***************************************************************************)
Done == conv.op = "convert_value"

\* v * (num / den) * pi^pexp
Scale(v, num, den, pexp) == Norm(v.n * num, v.d * den, v.p + pexp)

\* The value of v, a measure in unit from, in unit to, by the ratio
\* pi rad = 180 degrees = 0.5 turn.
Scaled(from, to, v) ==
    CASE from = to -> v
      [] from = "Radian" /\ to = "Degree" -> Scale(v, 180, 1, -1)
      [] from = "Radian" /\ to = "Turn" -> Scale(v, 1, 2, -1)
      [] from = "Degree" /\ to = "Radian" -> Scale(v, 1, 180, 1)
      [] from = "Degree" /\ to = "Turn" -> Scale(v, 1, 360, 0)
      [] from = "Turn" /\ to = "Radian" -> Scale(v, 2, 1, 1)
      [] from = "Turn" /\ to = "Degree" -> Scale(v, 360, 1, 0)

\* The engine calls of a conversion, in order: <<operation, right operand>>.
FromPlan(self) ==
    CASE self = "Radian" -> <<>>
      [] self = "Degree" -> <<<<"div", Value_from(180)>>, <<"mul", PI>>>>
      [] self = "Turn" -> <<<<"div", Value_half>>, <<"div", PI>>>>

ToPlan(to) ==
    CASE to = "Radian" -> <<>>
      [] to = "Degree" -> <<<<"div", PI>>, <<"mul", Value_from(180)>>>>
      [] to = "Turn" -> <<<<"div", PI>>, <<"mul", Value_half>>>>

\* Exact result of one engine call that succeeds.
Apply(op, lhs, rhs) ==
    IF op = "div" THEN Div(lhs, rhs, "ok").val ELSE Mul(lhs, rhs, "ok").val

\* C3: a value in turns converts to that value times 2 pi radians; 1 turn is
\* 2 pi radians.
C3_TurnToRadian ==
    (Done /\ conv.self = "Turn" /\ conv.to = "Radian" /\ conv.ret.ok) =>
        /\ conv.ret.val = Scale(conv.value, 2, 1, 1)
        /\ conv.value = Value_from(1) => conv.ret.val = Norm(2, 1, 1)

\* C4: the engine calls are made in the order from-unit division, from-unit
\* second step, to-unit division by pi, to-unit multiplication, each on the
\* result of the one before; the first call that fails is the last one made
\* and its failure is the result; a value is returned only when every call
\* made succeeded.
C4_FirstFailure ==
    Done =>
        LET plan == FromPlan(conv.self) \o ToPlan(conv.to)
            failing == {i \in 1..Len(plan) : conv.eng[i] # "ok"}
            made == conv.ops
        IN /\ Len(made) <= Len(plan)
           /\ \A i \in 1..Len(made) :
                  /\ made[i].op = plan[i][1]
                  /\ made[i].rhs = plan[i][2]
                  /\ made[i].lhs = IF i = 1 THEN conv.value
                                   ELSE Apply(made[i-1].op, made[i-1].lhs, made[i-1].rhs)
           /\ IF failing = {}
              THEN /\ conv.ret.ok
                   /\ Len(made) = Len(plan)
              ELSE LET k == CHOOSE i \in failing : \A j \in failing : i <= j
                   IN /\ conv.ret = Err(conv.eng[k])
                      /\ Len(made) = k
           /\ conv.ret.ok => \A i \in 1..Len(made) : conv.eng[i] = "ok"

\* A Degree to Turn conversion whose second call failed with E1, while the
\* third would have failed with E2: two calls made, E1 returned.
C4_Witness ==
    /\ Done
    /\ conv.self = "Degree" /\ conv.to = "Turn"
    /\ conv.eng[1] = "ok" /\ conv.eng[2] = "E1" /\ conv.eng[3] = "E2"
    /\ conv.ret = Err("E1")
    /\ Len(conv.ops) = 2

\* C5: convert_value(Radian, Radian, v) returns v, makes no engine call and so
\* cannot fail, whatever the engine would have answered.
C5_RadianIdentity ==
    (Done /\ conv.self = "Radian" /\ conv.to = "Radian") =>
        /\ conv.ret = Ok(conv.value)
        /\ conv.ops = <<>>

\* A Radian to Radian conversion of a non-zero value has returned with an
\* engine every call of which would have failed.
C5_Witness ==
    /\ Done
    /\ conv.self = "Radian" /\ conv.to = "Radian"
    /\ conv.value # Value_from(0)
    /\ \A i \in 1..MaxCalls : conv.eng[i] # "ok"
    /\ conv.ret = Ok(conv.value)

\* C6: from Radian or Degree, a conversion that returns a value returns the
\* input scaled by the ratio pi rad = 180 degrees = 0.5 turn; pi radians are
\* 180 degrees and 180 degrees are 0.5 turn; the Degree source is computed as
\* (v / 180) * pi, the Degree and Turn targets as (r / pi) * 180 and
\* (r / pi) * 0.5.
C6_RadianDegreeSource ==
    (Done /\ conv.self \in {"Radian", "Degree"} /\ conv.ret.ok) =>
        /\ conv.ret.val = Scaled(conv.self, conv.to, conv.value)
        /\ (conv.self = "Radian" /\ conv.to = "Degree" /\ conv.value = PI)
               => conv.ret.val = Value_from(180)
        /\ (conv.self = "Degree" /\ conv.to = "Turn" /\ conv.value = Value_from(180))
               => conv.ret.val = Value_half
        /\ [i \in 1..Len(conv.ops) |-> <<conv.ops[i].op, conv.ops[i].rhs>>]
               = FromPlan(conv.self) \o ToPlan(conv.to)

\* 180 degrees have been converted to 0.5 turn.
C6_Witness ==
    /\ Done
    /\ conv.self = "Degree" /\ conv.to = "Turn"
    /\ conv.value = Value_from(180)
    /\ conv.ret = Ok(Value_half)

\* C10: converting the result of a conversion back to the source unit, with
\* no engine call failing, gives the value converted in the first place.
C10_RoundTrip ==
    (Done /\ conv.ret.ok) =>
        convert_value(conv.to, conv.self, conv.ret.val, AllOk).res = Ok(conv.value)
====
